---- MODULE Spec2Model ----
(***************************************************************************)
(* The reactor of examples/c/http-server.c: main() sets up a listening     *)
(* socket, issues one accept, and then loops forever over demi_wait_any,   *)
(* dispatching each completion on qr.qr_opcode.                            *)
(*                                                                         *)
(* The program's own state is pc, sockqd, qts, nqts, qr, offset and out    *)
(* (what it wrote to stdout).  The transport behind the demi_* calls is    *)
(* the variables nextqt and ops; the peers are backlog, cstate and inbox.  *)
(* nfree, nstale, oob and errs record what happened: calls of              *)
(* demi_sgafree, completions reported a second time, arrays accessed       *)
(* outside their elements, demi_* calls that returned an error.            *)
(***************************************************************************)
EXTENDS Integers, Sequences, FiniteSets, TLC

\* Capacity of the token array.  The source has 1024; the model keeps the
\* table small enough for it to fill up.
NQTOKEN == 3
\* Number of peers that may connect, and messages each may send.
MaxClients == 2
MaxMsgs == 2
\* How often the transport may report again a completion it already reported.
MaxStale == NQTOKEN - 1

VARIABLES pc, sockqd, qts, nqts, qr, offset, out,
          nextqt, ops, backlog, cstate, inbox, nsent,
          nfree, nstale, oob, errs

vars == <<pc, sockqd, qts, nqts, qr, offset, out,
          nextqt, ops, backlog, cstate, inbox, nsent,
          nfree, nstale, oob, errs>>

prog == <<sockqd, qts, nqts, qr, offset, out>>
transport == <<nextqt, ops>>
peers == <<backlog, cstate, inbox, nsent>>
hist == <<nfree, nstale, oob, errs>>

Clients == 1..MaxClients

\* qr.qr_opcode values
DEMI_OPC_ACCEPT == "DEMI_OPC_ACCEPT"
DEMI_OPC_POP == "DEMI_OPC_POP"
OtherOpcodes == {"DEMI_OPC_INVALID", "DEMI_OPC_FAILED"}

\* The queue descriptor demi_socket hands out; an accepted connection of
\* client c has descriptor c.
ListenQd == 0

\* A scatter-gather array: its segments, and whether sga_segs compares equal to 0.
NoSga == [segs |-> <<>>, null |-> FALSE]
\* qr = {0}
NoQr == [qr_opcode |-> "DEMI_OPC_INVALID", qr_qd |-> 0, ares_qd |-> 0, sga |-> NoSga]

\* What printf finds at segment 0 of an array that has no segment: bytes no
\* client sent.
Garbage == <<0, 0>>

\* demi_qtoken_t qts[NQTOKEN] = {-1}: slot 0 is -1, every other slot is 0.
InitQts == [i \in 0..(NQTOKEN - 1) |-> IF i = 0 THEN -1 ELSE 0]

Init ==
    /\ pc = "demi_init"
    /\ sockqd = -1
    /\ qts = InitQts
    /\ nqts = 1
    /\ qr = NoQr
    /\ offset = -1
    /\ out = <<>>
    /\ nextqt = 1
    /\ ops = <<>>
    /\ backlog = <<>>
    /\ cstate = [c \in Clients |-> "idle"]
    /\ inbox = [c \in Clients |-> <<>>]
    /\ nsent = [c \in Clients |-> 0]
    /\ nfree = 0
    /\ nstale = 0
    /\ oob = {}
    /\ errs = {}

----------------------------------------------------------------------------
(* The transport: tokens are handed out in sequence and never reused;      *)
(* ops[t] is the operation token t was issued for.                         *)

Issued == 1..Len(ops)
Pending(t) == t \in Issued /\ ~ops[t].done
NewOp(kind, qd) == [kind |-> kind, qd |-> qd, done |-> FALSE, res |-> NoQr]

\* The tokens demi_wait_any is handed: all NQTOKEN slots of qts.
Waited == {qts[i] : i \in 0..(NQTOKEN - 1)}
\* The position wait_any reports for token t.
OffsetOf(t) == CHOOSE i \in 0..(NQTOKEN - 1) :
                  qts[i] = t /\ \A j \in 0..(NQTOKEN - 1) : qts[j] = t => i <= j

\* Operations on one queue complete in the order they were issued: t is the
\* oldest pending operation of its queue among the waited tokens.
Ready(t) ==
    /\ t \in Waited
    /\ Pending(t)
    /\ \A u \in Waited : (Pending(u) /\ ops[u].qd = ops[t].qd) => t <= u

\* demi_wait_any returns 0 with token t's result in qr and its position in offset.
Report(t, res) ==
    /\ qr' = res
    /\ offset' = OffsetOf(t)
    /\ pc' = "dispatch"
    /\ UNCHANGED <<sockqd, qts, nqts, out, nextqt, nfree, oob, errs>>

----------------------------------------------------------------------------
(* Setup, lines 30-39.  Every call is wrapped in assert(... == 0).         *)

\* A failed setup call that is ignored: main goes on to the accept.
AbortSetupIgnored ==
    /\ pc \in {"demi_init", "demi_socket", "demi_bind", "demi_listen", "demi_accept"}
    /\ errs' = errs \cup {pc}
    /\ pc' = "demi_accept"
    /\ UNCHANGED <<prog, transport, peers, nfree, nstale, oob>>

\* The call at pc returns non-zero: its assert aborts the process.
AbortSetup ==
    /\ pc \in {"demi_init", "demi_socket", "demi_bind", "demi_listen", "demi_accept"}
    /\ errs' = errs \cup {pc}
    /\ pc' = "aborted"
    /\ UNCHANGED <<prog, transport, peers, nfree, nstale, oob>>

DemiInit ==
    /\ pc = "demi_init"
    /\ pc' = "demi_socket"
    /\ UNCHANGED <<prog, transport, peers, hist>>

DemiSocket ==
    /\ pc = "demi_socket"
    /\ sockqd' = ListenQd
    /\ pc' = "demi_bind"
    /\ UNCHANGED <<qts, nqts, qr, offset, out, transport, peers, hist>>

DemiBind ==
    /\ pc = "demi_bind"
    /\ pc' = "demi_listen"
    /\ UNCHANGED <<prog, transport, peers, hist>>

DemiListen ==
    /\ pc = "demi_listen"
    /\ pc' = "demi_accept"
    /\ UNCHANGED <<prog, transport, peers, hist>>

\* The first accept registered the way the Accept arm registers its pop:
\* demi_accept(&qts[nqts++], sockqd).
DemiAcceptAppended ==
    /\ pc = "demi_accept"
    /\ qts' = [qts EXCEPT ![nqts] = nextqt]
    /\ nqts' = nqts + 1
    /\ ops' = Append(ops, NewOp("accept", sockqd))
    /\ nextqt' = nextqt + 1
    /\ pc' = "wait"
    /\ UNCHANGED <<sockqd, qr, offset, out, peers, hist>>

\* assert(demi_accept(&qts[0], sockqd) == 0)
DemiAccept ==
    /\ pc = "demi_accept"
    /\ qts' = [qts EXCEPT ![0] = nextqt]
    /\ ops' = Append(ops, NewOp("accept", sockqd))
    /\ nextqt' = nextqt + 1
    /\ pc' = "wait"
    /\ UNCHANGED <<sockqd, nqts, qr, offset, out, peers, hist>>

----------------------------------------------------------------------------
(* The peers.  Message k of client c is <<c, k>>.  The handlers never      *)
(* block, so what a peer does while one runs is seen by the program at its *)
(* next wait: the peers act while the program is in demi_wait_any.  What   *)
(* a peer sends before its connection is accepted is delivered like what   *)
(* it sends right after: a peer sends once it is accepted.                 *)

Listening == pc = "wait"

ClientConnect(c) ==
    /\ Listening
    /\ cstate[c] = "idle"
    /\ cstate' = [cstate EXCEPT ![c] = "connecting"]
    /\ backlog' = Append(backlog, c)
    /\ UNCHANGED <<pc, prog, transport, inbox, nsent, hist>>

ClientSend(c) ==
    /\ Listening
    /\ cstate[c] = "accepted"
    /\ nsent[c] < MaxMsgs
    /\ nsent' = [nsent EXCEPT ![c] = nsent[c] + 1]
    /\ inbox' = [inbox EXCEPT ![c] = Append(inbox[c], <<c, nsent[c] + 1>>)]
    /\ UNCHANGED <<pc, prog, transport, backlog, cstate, hist>>

ClientClose(c) ==
    /\ Listening
    /\ cstate[c] = "accepted"
    /\ cstate' = [cstate EXCEPT ![c] = "closed"]
    /\ UNCHANGED <<pc, prog, transport, backlog, inbox, nsent, hist>>

----------------------------------------------------------------------------
(* demi_wait_any(&qr, &offset, qts, NQTOKEN), line 42.  The call blocks    *)
(* while none of the actions below is enabled.                             *)

\* The accept on the listening socket completes with the next connection.
WaitAccept ==
    /\ pc = "wait"
    /\ backlog # <<>>
    /\ \E t \in Waited :
        /\ Ready(t)
        /\ ops[t].kind = "accept"
        /\ LET c == Head(backlog)
               res == [qr_opcode |-> DEMI_OPC_ACCEPT, qr_qd |-> ops[t].qd,
                       ares_qd |-> c, sga |-> NoSga]
           IN /\ ops' = [ops EXCEPT ![t].done = TRUE, ![t].res = res]
              /\ backlog' = Tail(backlog)
              /\ cstate' = [cstate EXCEPT ![c] = "accepted"]
              /\ Report(t, res)
    /\ UNCHANGED <<inbox, nsent, nstale>>

\* A pop completes with the next message of its connection, in one segment.
WaitPop ==
    /\ pc = "wait"
    /\ \E t \in Waited :
        /\ Ready(t)
        /\ ops[t].kind = "pop"
        /\ inbox[ops[t].qd] # <<>>
        /\ LET c == ops[t].qd
               res == [qr_opcode |-> DEMI_OPC_POP, qr_qd |-> c, ares_qd |-> 0,
                       sga |-> [segs |-> <<Head(inbox[c])>>, null |-> FALSE]]
           IN /\ ops' = [ops EXCEPT ![t].done = TRUE, ![t].res = res]
              /\ inbox' = [inbox EXCEPT ![c] = Tail(inbox[c])]
              /\ Report(t, res)
    /\ UNCHANGED <<backlog, cstate, nsent, nstale>>

\* A pop on a connection the peer closed completes with no segment at all.
WaitPopEof ==
    /\ pc = "wait"
    /\ \E t \in Waited, isnull \in BOOLEAN :
        /\ Ready(t)
        /\ ops[t].kind = "pop"
        /\ cstate[ops[t].qd] = "closed"
        /\ inbox[ops[t].qd] = <<>>
        /\ LET res == [qr_opcode |-> DEMI_OPC_POP, qr_qd |-> ops[t].qd, ares_qd |-> 0,
                       sga |-> [segs |-> <<>>, null |-> isnull]]
           IN /\ ops' = [ops EXCEPT ![t].done = TRUE, ![t].res = res]
              /\ Report(t, res)
    /\ UNCHANGED <<peers, nstale>>

\* An operation completes with an opcode that is neither ACCEPT nor POP.
WaitOther ==
    /\ pc = "wait"
    /\ \E t \in Waited, opc \in OtherOpcodes :
        /\ Ready(t)
        /\ LET res == [qr_opcode |-> opc, qr_qd |-> ops[t].qd, ares_qd |-> 0,
                       sga |-> NoSga]
           IN /\ ops' = [ops EXCEPT ![t].done = TRUE, ![t].res = res]
              /\ Report(t, res)
    /\ UNCHANGED <<peers, nstale>>

\* Some waited token is not a pending operation (a slot never written, or a
\* token whose completion was already reported): the call may fail, and the
\* assert around it aborts.
WaitError ==
    /\ pc = "wait"
    /\ \E t \in Waited : ~Pending(t)
    /\ errs' = errs \cup {"demi_wait_any"}
    /\ pc' = "aborted"
    /\ UNCHANGED <<prog, transport, peers, nfree, nstale, oob>>

\* ... or the call may report the completion of such a token once more.
WaitStale ==
    /\ pc = "wait"
    /\ nstale < MaxStale
    /\ \E t \in Waited :
        /\ t \in Issued
        /\ ops[t].done
        /\ Report(t, ops[t].res)
    /\ nstale' = nstale + 1
    /\ UNCHANGED <<ops, peers>>

----------------------------------------------------------------------------
(* The dispatch on qr.qr_opcode, lines 43-56.                              *)

InTable(i) == i \in 0..(NQTOKEN - 1)

\* The Accept arm issuing a fresh accept as well, registered the same way:
\* demi_pop(&qts[nqts++], qd), then demi_accept(&qts[nqts++], sockqd).
HandleAcceptRearming ==
    /\ pc = "dispatch"
    /\ qr.qr_opcode = DEMI_OPC_ACCEPT
    /\ InTable(nqts)
    /\ InTable(nqts + 1)
    /\ out' = Append(out, <<"accept">>)
    /\ qts' = [qts EXCEPT ![nqts] = nextqt, ![nqts + 1] = nextqt + 1]
    /\ nqts' = nqts + 2
    /\ ops' = ops \o <<NewOp("pop", qr.ares_qd), NewOp("accept", sockqd)>>
    /\ nextqt' = nextqt + 2
    /\ pc' = "wait"
    /\ UNCHANGED <<sockqd, qr, offset, peers, hist>>

\* Accept arm: printf, then assert(demi_pop(&qts[nqts++], qd) == 0), the pop
\* succeeding and its token landing in the table.
HandleAccept ==
    /\ pc = "dispatch"
    /\ qr.qr_opcode = DEMI_OPC_ACCEPT
    /\ InTable(nqts)
    /\ out' = Append(out, <<"accept">>)
    /\ qts' = [qts EXCEPT ![nqts] = nextqt]
    /\ nqts' = nqts + 1
    /\ ops' = Append(ops, NewOp("pop", qr.ares_qd))
    /\ nextqt' = nextqt + 1
    /\ pc' = "wait"
    /\ UNCHANGED <<sockqd, qr, offset, peers, hist>>

\* Accept arm, demi_pop returning an error: the assert aborts.
HandleAcceptPopFails ==
    /\ pc = "dispatch"
    /\ qr.qr_opcode = DEMI_OPC_ACCEPT
    /\ out' = Append(out, <<"accept">>)
    /\ nqts' = nqts + 1
    /\ errs' = errs \cup {"demi_pop"}
    /\ pc' = "aborted"
    /\ UNCHANGED <<sockqd, qts, qr, offset, transport, peers, nfree, nstale, oob>>

\* Accept arm with nqts outside the table: the token is stored past the end
\* of qts.  The store may hit nothing the program uses, may overwrite nqts
\* itself (with whatever the token's bytes are), or may end the process.
HandleAcceptOverflow ==
    /\ pc = "dispatch"
    /\ qr.qr_opcode = DEMI_OPC_ACCEPT
    /\ ~InTable(nqts)
    /\ out' = Append(out, <<"accept">>)
    /\ ops' = Append(ops, NewOp("pop", qr.ares_qd))
    /\ nextqt' = nextqt + 1
    /\ oob' = oob \cup {"qts"}
    /\ nqts' \in {nqts + 1} \cup 0..NQTOKEN
    /\ pc' \in {"wait", "crashed"}
    /\ UNCHANGED <<sockqd, qts, qr, offset, peers, nfree, nstale, errs>>

\* The Pop arm issuing the next pop on the connection and registering it:
\* demi_pop(&qts[nqts++], qr.qr_qd).
HandlePopRearming ==
    /\ pc = "dispatch"
    /\ qr.qr_opcode = DEMI_OPC_POP
    /\ ~qr.sga.null
    /\ Len(qr.sga.segs) > 0
    /\ InTable(nqts)
    /\ out' = Append(out, <<"recv", qr.sga.segs[1]>>)
    /\ qts' = [qts EXCEPT ![nqts] = nextqt]
    /\ nqts' = nqts + 1
    /\ ops' = Append(ops, NewOp("pop", qr.qr_qd))
    /\ nextqt' = nextqt + 1
    /\ pc' = "wait"
    /\ UNCHANGED <<sockqd, qr, offset, peers, hist>>

\* Pop arm: assert(sga_segs != 0), then printf of segment 0.  demi_sgafree
\* is commented out.
HandlePop ==
    /\ pc = "dispatch"
    /\ qr.qr_opcode = DEMI_OPC_POP
    /\ ~qr.sga.null
    /\ Len(qr.sga.segs) > 0
    /\ out' = Append(out, <<"recv", qr.sga.segs[1]>>)
    /\ pc' = "wait"
    /\ UNCHANGED <<sockqd, qts, nqts, qr, offset, transport, peers, hist>>

\* Pop arm, sga_segs == 0: the assert aborts.
HandlePopNull ==
    /\ pc = "dispatch"
    /\ qr.qr_opcode = DEMI_OPC_POP
    /\ qr.sga.null
    /\ pc' = "aborted"
    /\ UNCHANGED <<prog, transport, peers, hist>>

\* Pop arm, no segment: segment 0 is read all the same.  printf prints
\* whatever is there, or the process ends.
HandlePopNoSeg ==
    /\ pc = "dispatch"
    /\ qr.qr_opcode = DEMI_OPC_POP
    /\ ~qr.sga.null
    /\ Len(qr.sga.segs) = 0
    /\ oob' = oob \cup {"sga_segs"}
    /\ \/ pc' = "wait" /\ out' = Append(out, <<"recv", Garbage>>)
       \/ pc' = "crashed" /\ out' = out
    /\ UNCHANGED <<sockqd, qts, nqts, qr, offset, transport, peers, nfree, nstale, errs>>

\* The else arm treating the opcode as fatal.
HandleOtherFatal ==
    /\ pc = "dispatch"
    /\ qr.qr_opcode \notin {DEMI_OPC_ACCEPT, DEMI_OPC_POP}
    /\ out' = Append(out, <<"opcode", qr.qr_opcode>>)
    /\ pc' = "aborted"
    /\ UNCHANGED <<sockqd, qts, nqts, qr, offset, transport, peers, hist>>

\* Else arm: printf of the opcode.
HandleOther ==
    /\ pc = "dispatch"
    /\ qr.qr_opcode \notin {DEMI_OPC_ACCEPT, DEMI_OPC_POP}
    /\ out' = Append(out, <<"opcode", qr.qr_opcode>>)
    /\ pc' = "wait"
    /\ UNCHANGED <<sockqd, qts, nqts, qr, offset, transport, peers, hist>>

----------------------------------------------------------------------------

Setup == AbortSetup \/ DemiInit \/ DemiSocket \/ DemiBind \/ DemiListen \/ DemiAccept
Peer == \E c \in Clients : ClientConnect(c) \/ ClientSend(c) \/ ClientClose(c)
Wait == WaitAccept \/ WaitPop \/ WaitPopEof \/ WaitOther \/ WaitError \/ WaitStale
Dispatch == \/ HandleAccept \/ HandleAcceptPopFails \/ HandleAcceptOverflow
            \/ HandlePop \/ HandlePopNull \/ HandlePopNoSeg
            \/ HandleOther

Next == Setup \/ Peer \/ Wait \/ Dispatch

Spec == Init /\ [][Next]_vars

----------------------------------------------------------------------------
(* Notions the properties below are stated with.                           *)

Slots == 0..(NQTOKEN - 1)
\* The registered slots: those below nqts.
Registered == {i \in Slots : i < nqts}
\* The number of lines of out that satisfy Test.
Count(seq, Test(_)) == Cardinality({k \in 1..Len(seq) : Test(seq[k])})
IsRecv(line) == line[1] = "recv" /\ line[2] # Garbage
NumRecv == Count(out, IsRecv)
\* The transport has so far behaved: no operation failed, no completion was
\* reported twice.
WellBehaved ==
    /\ nstale = 0
    /\ \A t \in Issued : ops[t].done => ops[t].res.qr_opcode \in {DEMI_OPC_ACCEPT, DEMI_OPC_POP}
\* The wait has nothing to deliver.
Quiet ==
    /\ pc = "wait"
    /\ \A t \in Waited : Ready(t) =>
          /\ ops[t].kind = "accept" => backlog = <<>>
          /\ ops[t].kind = "pop" => inbox[ops[t].qd] = <<>> /\ cstate[ops[t].qd] # "closed"
PendingAccepts == {t \in Issued : ~ops[t].done /\ ops[t].kind = "accept" /\ ops[t].qd = sockqd}

\* C1: at every wait, unless the table is at capacity, exactly one pending
\* accept is outstanding on the listening socket and its token is registered.
\* Stated for runs in which the transport has behaved.
C1_OneAcceptOutstanding ==
    (pc = "wait" /\ WellBehaved /\ nqts < NQTOKEN) =>
        /\ Cardinality(PendingAccepts) = 1
        /\ \E i \in Registered : qts[i] \in PendingAccepts

\* C2: at every wait, demi_sgafree has been called once for each Receive
\* completion handled so far.
C2_ReleasedOncePerReceive ==
    (pc = "wait" /\ WellBehaved) => nfree = NumRecv

\* C3: at the wait that follows the handling of a Receive completion, a
\* pending pop on the same connection is registered.
C3_ReceiveRearmed ==
    (pc = "wait" /\ WellBehaved /\ qr.qr_opcode = DEMI_OPC_POP) =>
        \E i \in Registered :
            /\ Pending(qts[i])
            /\ ops[qts[i]].kind = "pop"
            /\ ops[qts[i]].qd = qr.qr_qd

\* C4: no token whose completion the wait has reported is passed to a later
\* wait.
C4_ConsumedOnce ==
    (pc = "wait" /\ WellBehaved) => \A t \in Waited : ~(t \in Issued /\ ops[t].done)

C6_EveryClientServed ==
    (WellBehaved /\ MaxClients <= NQTOKEN - 1) =>
        /\ \A c \in Clients : \A k \in 1..nsent[c] :
              LET IsMsg(line) == line = <<"recv", <<c, k>>>>
              IN Count(out, IsMsg) <= 1
        /\ Quiet =>
              \A c \in Clients :
                  /\ cstate[c] # "connecting"
                  /\ \A k \in 1..nsent[c] :
                        LET IsMsg(line) == line = <<"recv", <<c, k>>>>
                        IN Count(out, IsMsg) = 1

\* C7: a Receive completion without segments is handled without reading
\* segment 0, is not printed as a received message, and the loop goes back
\* to the wait.
C7_ZeroSegmentsHandled ==
    [][(pc = "dispatch" /\ qr.qr_opcode = DEMI_OPC_POP /\ Len(qr.sga.segs) = 0) =>
          /\ pc' = "wait"
          /\ "sga_segs" \notin oob'
          /\ Count(out', IsRecv) = Count(out, IsRecv)
          /\ out' # Append(out, <<"recv", Garbage>>)]_vars

\* C8: once the loop has started, no error of demi_wait_any or demi_pop
\* ends it.
C8_LoopSurvivesErrors ==
    [][(pc \in {"wait", "dispatch"}) => (pc' \notin {"aborted"})]_vars

\* C9: a completion whose opcode is neither ACCEPT nor POP is printed and the
\* loop goes back to the wait, whatever the opcode.
C9_OtherKindContinues ==
    [][(pc = "dispatch" /\ qr.qr_opcode \notin {DEMI_OPC_ACCEPT, DEMI_OPC_POP}) =>
          /\ pc' = "wait"
          /\ out' = Append(out, <<"opcode", qr.qr_opcode>>)]_vars

\* C9 witness: every other opcode has been printed and the loop is waiting.
C9_Witness ==
    /\ pc = "wait"
    /\ \A opc \in OtherOpcodes : \E k \in 1..Len(out) : out[k] = <<"opcode", opc>>

AllMsgs == {<<c, k>> : c \in Clients, k \in 1..MaxMsgs}
SentBag == [m \in AllMsgs |-> IF m[2] <= nsent[m[1]] THEN 1 ELSE 0]
ObservedBag == [m \in AllMsgs |-> Cardinality({k \in 1..Len(out) : out[k] = <<"recv", m>>})]

\* C11: with two or more connections, whatever the order in which their
\* completions were delivered, once the wait has nothing left to deliver the
\* multiset of messages printed is the multiset of messages sent.
C11_OrderIndependent ==
    (WellBehaved /\ Quiet /\ Cardinality({c \in Clients : cstate[c] # "idle"}) >= 2) =>
        ObservedBag = SentBag

\* C12: once demi_socket, demi_bind or demi_listen has returned an error the
\* process is dead (abort, a non-zero status), no accept has been issued and
\* the loop has printed nothing, for ever.
C12_SetupFailureIsFatal ==
    (errs \cap {"demi_socket", "demi_bind", "demi_listen"} # {}) =>
        /\ pc = "aborted"
        /\ ops = <<>>
        /\ out = <<>>
        /\ qts = InitQts

\* C12 witness: the bind failed and the process is dead.
C12_Witness ==
    /\ "demi_bind" \in errs
    /\ pc = "aborted"

\* C13: between two waits the dispatch handles the one completion the wait
\* delivered: it runs one arm (one line printed) and goes back to the wait,
\* always.
C13_OneCompletionPerWait ==
    [][(pc = "dispatch") => (pc' = "wait" /\ Len(out') = Len(out) + 1)]_vars

\* No completion has been reported yet: the program is in its first wait.
FirstWait == pc = "wait" /\ \A t \in Issued : ~ops[t].done

\* C14: in the first wait exactly one operation has been issued, an accept on
\* the listening socket; its token is in slot 0 and it is the only registered
\* token (nqts = 1).
C14_FirstAcceptOnly ==
    FirstWait =>
        /\ sockqd = ListenQd
        /\ ops = <<NewOp("accept", sockqd)>>
        /\ nqts = 1
        /\ Registered = {0}
        /\ qts[0] \in Issued
        /\ \A i \in Slots \ {0} : qts[i] = InitQts[i]

\* C14 witness: the first wait, with a client waiting to be accepted.
C14_Witness == FirstWait /\ backlog # <<>>

\* C15: as long as the transport has reported no completion twice, nqts is
\* within 1..NQTOKEN and no token has been stored outside qts.
C15_IndexInRange ==
    (nstale = 0) =>
        /\ nqts \in 1..NQTOKEN
        /\ "qts" \notin oob

\* C15 witness: the Accept arm has stored a token, with every completion
\* reported once.
C15_Witness ==
    /\ nstale = 0
    /\ pc = "wait"
    /\ nqts = 2
    /\ Pending(qts[1])

\* C16: every slot of qts handed to the wait holds the token of an operation
\* that was issued.
C16_WaitedSlotsRegistered ==
    pc = "wait" => \A i \in Slots : qts[i] \in Issued

Running == {"wait", "dispatch"}

C18_OnlyAcceptRegisters ==
    [][(pc = "dispatch" /\ qr.qr_opcode # DEMI_OPC_ACCEPT) =>
          /\ qts' = qts
          /\ nqts' = nqts
          /\ ops' = ops
          /\ nextqt' = nextqt]_vars

\* C18 witness: the Pop arm and the else arm have both run, and the loop is
\* waiting.
C18_Witness ==
    /\ pc = "wait"
    /\ \E k \in 1..Len(out) : out[k][1] = "recv"
    /\ \E k \in 1..Len(out) : out[k][1] = "opcode"

\* The pops issued and the Accept completions handled so far.
NumPops == Cardinality({t \in Issued : ops[t].kind = "pop"})
NumAccepts == Cardinality({k \in 1..Len(out) : out[k] = <<"accept">>})

====
